---- MODULE Spec2Model ----
(***************************************************************************)
(* Model of server.js: the push-hook route, the scheduler binder and the   *)
(* deploy() orchestrator with its "deploying" lock object and "queued"     *)
(* map.  Every action is one event-loop callback of the program.           *)
(***************************************************************************)
EXTENDS Integers, Sequences, FiniteSets, TLC

\* Number of external deploy requests (admitted pushes + scheduler fires).
MaxSubmits == 3

Ids == 1..MaxSubmits

(***************************************************************************)
(* Strings.  A string that the code takes apart is a sequence of           *)
(* one-character strings; Str turns it into the string used as a key.      *)
(***************************************************************************)
RECURSIVE Str(_)
Str(cs) == IF cs = <<>> THEN "" ELSE cs[1] \o Str(Tail(cs))

\* String.prototype.split(sep) for a one-character separator.
RECURSIVE Split(_, _)
Split(cs, sep) ==
    IF \A i \in 1..Len(cs) : cs[i] # sep
    THEN <<cs>>
    ELSE LET k == CHOOSE i \in 1..Len(cs) :
                     cs[i] = sep /\ \A j \in 1..(i - 1) : cs[j] # sep
         IN  <<SubSeq(cs, 1, k - 1)>> \o Split(SubSeq(cs, k + 1, Len(cs)), sep)

\* Array.prototype.slice(-1): the array of the last element.
SliceLast(arr) == IF arr = <<>> THEN <<>> ELSE <<arr[Len(arr)]>>

\* Array.prototype.join(sep).
RECURSIVE Join(_, _)
Join(arr, sep) ==
    IF arr = <<>> THEN <<>>
    ELSE IF Len(arr) = 1 THEN arr[1]
    ELSE arr[1] \o <<sep>> \o Join(Tail(arr), sep)

(***************************************************************************)
(* Plain objects.  "deploying" is a function from its property names;      *)
(* "queued" is the sequence of its values in property (insertion) order,   *)
(* keyed by the deployer's name.                                           *)
(***************************************************************************)
Undefined == "<undefined>"

\* The `in` operator on the deploying object.  The names of this model are
\* of the form repository-branch, as routeHookPush builds them: none is a
\* property the object has from the start ("active") or inherits.
In(key, obj) == key \in DOMAIN obj

\* obj[key] = val
Put(obj, key, val) ==
    [k \in DOMAIN obj \cup {key} |-> IF k = key THEN val ELSE obj[k]]

\* A cleanup that leaves the key in place.
DeleteKeepsKey(obj, key) == obj

\* delete obj[key]
Delete(obj, key) == [k \in DOMAIN obj \ {key} |-> obj[k]]

\* A queue that never overwrites: every request is added at the end.
ObjPutAppend(q, d) == Append(q, d)

\* A queue of one slot for all names: the request replaces whatever is held.
ObjPutSingleSlot(q, d) == <<d>>

\* queued[d.name] = d: a new key goes last, an existing key keeps its place.
ObjPut(q, d) ==
    IF \E i \in 1..Len(q) : q[i].name = d.name
    THEN [i \in 1..Len(q) |-> IF q[i].name = d.name THEN d ELSE q[i]]
    ELSE Append(q, d)

\* A drain that finds no key.
ForInNothing(q) == Undefined

\* A drain that takes the key inserted last.
ForInLast(q) == IF q = <<>> THEN Undefined ELSE q[Len(q)].name

\* for (var queuedName in queued) break;
ForInFirst(q) == IF q = <<>> THEN Undefined ELSE q[1].name

\* if (queuedName)
Truthy(s) == s # Undefined /\ s # ""

\* queued[queuedName]
ObjGet(q, name) == q[CHOOSE i \in 1..Len(q) : q[i].name = name]

\* A drain that empties queued instead of deleting one key.
ObjDeleteAll(q, name) == <<>>

\* A drain that leaves the key it takes in queued.
ObjDeleteKeeps(q, name) == q

\* delete queued[queuedName]
ObjDelete(q, name) == SelectSeq(q, LAMBDA d : d.name # name)

(***************************************************************************)
(* Addresses and the allow-list.  An address is its four octets; a range   *)
(* is a network address and a prefix length.                               *)
(***************************************************************************)
Pow2(n) == IF n = 0 THEN 1 ELSE IF n = 1 THEN 2 ELSE IF n = 2 THEN 4
           ELSE IF n = 3 THEN 8 ELSE IF n = 4 THEN 16 ELSE IF n = 5 THEN 32
           ELSE IF n = 6 THEN 64 ELSE IF n = 7 THEN 128 ELSE 256

Min(a, b) == IF a < b THEN a ELSE b
Max(a, b) == IF a > b THEN a ELSE b

\* range_check.in_range(ip, cidr): the first cidr.bits bits agree.
InRange(ip, cidr) ==
    \A i \in 1..4 :
        LET nb == Min(8, Max(0, cidr.bits - 8 * (i - 1)))
        IN  ip[i] \div Pow2(8 - nb) = cidr.addr[i] \div Pow2(8 - nb)

\* var githubIpRanges = [ '192.30.252.0/22' ];
DefaultIpRanges == << [addr |-> <<192, 30, 252, 0>>, bits |-> 22] >>

\* The values of "hooks" the metadata endpoint may answer with.
MetaHooks ==
    { <<>>,
      << [addr |-> <<10, 0, 0, 0>>, bits |-> 8],
         [addr |-> <<192, 30, 252, 0>>, bits |-> 22] >> }

\* Source addresses of incoming requests.
Ips == { <<192, 30, 253, 7>>, <<192, 30, 251, 9>>, <<10, 1, 2, 3>> }

\* The loop of routeHookPush over githubIpRanges, from index x (0-based):
\* "break" on the first range that holds ip, "reject" when the last range
\* does not hold it, "fallthrough" when the loop condition ends the loop.
RECURSIVE RangeLoop(_, _, _)
RangeLoop(ip, ranges, x) ==
    IF ~(x < Len(ranges)) THEN "fallthrough"
    ELSE IF InRange(ip, ranges[x + 1]) THEN "break"
    ELSE IF x = Len(ranges) - 1 THEN "reject"
    ELSE RangeLoop(ip, ranges, x + 1)

\* Whether routeHookPush goes on to parse the payload.
Admitted(ip, ranges) == RangeLoop(ip, ranges, 0) # "reject"

(***************************************************************************)
(* Push payloads and the deployer object built from them.                  *)
(***************************************************************************)
RefsHeads == <<"r", "e", "f", "s", "/", "h", "e", "a", "d", "s", "/">>

\* Branch names pushed to: plain ones and ones with a "/" in them.
Branches ==
    { <<"m">>, <<"x">>, <<"f", "/", "x">> }

Repos == { <<"a", "p", "p">> }

Payloads == [repository : Repos, ref : {RefsHeads \o b : b \in Branches}]

\* Request bodies whose payload is not JSON, or lacks repository or ref.
MalformedPayloads ==
    { [text |-> "{"], [repository |-> <<"a", "p", "p">>] }

\* JSON.parse(req.body.payload), payload.repository.name or payload.ref.split
\* throws.
Throws(payload) ==
    ~("repository" \in DOMAIN payload /\ "ref" \in DOMAIN payload)

\* payload.ref.split("/").slice(-1).join("-")
BranchSlug(ref) == Join(SliceLast(Split(ref, "/")), "-")

\* [repo, branch].join("-")
DeployerName(payload) == Str(Join(<<payload.repository, BranchSlug(payload.ref)>>, "-"))

\* payload.ref.split("/").slice(-1)[0]
DeployerBranch(payload) == Str(SliceLast(Split(payload.ref, "/"))[1])

\* __dirname + "/../" + deployerName
PathOf(name) == "../" \o name

\* The deployer object of routeHookPush; id is the identity of the object.
HookDeployer(payload, id) ==
    [name       |-> DeployerName(payload),
     path       |-> PathOf(DeployerName(payload)),
     repository |-> Str(payload.repository),
     branch     |-> DeployerBranch(payload),
     id         |-> id]

(***************************************************************************)
(* Deployment targets on disk (sibling directories holding deploy.js).     *)
(***************************************************************************)
TargetDirs == {"app-m", "app-x"}

\* Targets whose deploy.js has a schedule method.
SchedTargets == {"app-m"}

\* The deployer object a target's schedule passes to deploy().
SchedDeployer(t, id) ==
    [name |-> t, path |-> PathOf(t), repository |-> "app", branch |-> "m", id |-> id]

\* The entries of the parent directory that bindSchedulers reads: hidden is
\* a name starting with a dot, deployJs is fs.existsSync of its deploy.js,
\* schedule is "schedule" in the module loaded from it.
Entry(name, hidden, deployJs, schedule) ==
    [name |-> name, hidden |-> hidden, deployJs |-> deployJs, schedule |-> schedule]

\* The listing behind TargetDirs and SchedTargets.
Siblings ==
    { Entry("app-m", FALSE, TRUE, TRUE), Entry("app-x", FALSE, TRUE, FALSE) }

\* A fuller listing: a hidden entry, a directory without deploy.js, a target
\* without schedule and two targets with one.
BindSiblings ==
    { Entry(".git", TRUE, FALSE, FALSE), Entry("docs", FALSE, FALSE, FALSE),
      Entry("app-x", FALSE, TRUE, FALSE),
      Entry("app-m", FALSE, TRUE, TRUE), Entry("web-m", FALSE, TRUE, TRUE) }

BindNames == {f.name : f \in BindSiblings}

\* A scan that asks the branch of every target that has a deploy.js.
BindScanAnyDeployJs(files) ==
    {f.name : f \in {g \in files : ~g.hidden /\ g.deployJs}}

\* The loop of bindSchedulers: the targets whose branch it queries.
BindScan(files) ==
    {f.name : f \in {g \in files : ~g.hidden /\ g.deployJs /\ g.schedule}}

(***************************************************************************)
(* State.                                                                  *)
(***************************************************************************)
VARIABLES
    githubIpRanges,  \* the allow-list
    metaPending,     \* the request to api.github.com/meta has not called back
    deploying,       \* the lock object: "active" and one key per running name
    queued,          \* the pending deployers, in property order
    dirs,            \* the target directories that (still) hold deploy.js
    branchQueries,   \* targets whose `git rev-parse` has not called back
    armed,           \* targets whose schedule(branch, CronJob, deploy) was called
    fsChecks,        \* deployers whose fs.exists has not called back
    execs,           \* deployments between deploy() and their last callback
    nextId,          \* identity of the next deployer object
    status,          \* history: what became of each deployer object
    link,            \* history: for each deployer object, the one that
                     \* overwrote it in queued and, while it is queued, the
                     \* deployment of its name that ran when it was queued
    lastHook         \* history: the last push request and its answer

vars == <<githubIpRanges, metaPending, deploying, queued, dirs, branchQueries,
          armed, fsChecks, execs, nextId, status, link, lastHook>>

\* Whether some range of the list holds the address.
InSomeRange(ip, ranges) == \E x \in 1..Len(ranges) : InRange(ip, ranges[x])

NoHook == [inRange |-> FALSE, sent |-> 0, answer |-> "", dispatched |-> FALSE,
           ref |-> <<>>, repository |-> <<>>, name |-> "", branch |-> ""]

Init ==
    /\ githubIpRanges = DefaultIpRanges
    /\ metaPending = TRUE
    /\ deploying = [k \in {"active"} |-> FALSE]
    /\ queued = <<>>
    /\ dirs = TargetDirs
    /\ branchQueries = BindScan(Siblings)
    /\ armed = {}
    /\ fsChecks = {}
    /\ execs = {}
    /\ nextId = 1
    /\ status = [i \in Ids |-> "none"]
    /\ link = [i \in Ids |-> [replacedBy |-> 0, during |-> 0]]
    /\ lastHook = NoHook

\* The state after construction next to the directories of BindSiblings.
InitBind ==
    /\ githubIpRanges = DefaultIpRanges
    /\ metaPending = TRUE
    /\ deploying = [k \in {"active"} |-> FALSE]
    /\ queued = <<>>
    /\ dirs = {f.name : f \in {g \in BindSiblings : g.deployJs}}
    /\ branchQueries = BindScan(BindSiblings)
    /\ armed = {}
    /\ fsChecks = {}
    /\ execs = {}
    /\ nextId = 1
    /\ status = [i \in Ids |-> "none"]
    /\ link = [i \in Ids |-> [replacedBy |-> 0, during |-> 0]]
    /\ lastHook = NoHook

(***************************************************************************)
(* deploy(deployer)                                                        *)
(***************************************************************************)
\* A guard that looks at the deployer's own name only.
DeployBusyPerName(d, dep) == In(d.name, dep)

\* if (deployer.name in deploying || deploying.active)
DeployBusy(d, dep) == In(d.name, dep) \/ dep["active"]

\* The id of the deployment of this name now running, or 0.
RunningId(name, ex) ==
    IF \E e \in ex : e.d.name = name
    THEN (CHOOSE e \in ex : e.d.name = name).d.id
    ELSE 0

\* The state after deploy(d) called in state (dep, q, ex, st, rb).
DeployResult(d, dep, q, ex, st, rb) ==
    IF DeployBusy(d, dep)
    THEN [deploying |-> dep,
          queued    |-> ObjPut(q, d),
          execs     |-> ex,
          status    |-> [i \in Ids |->
                           IF i = d.id THEN "queued"
                           ELSE IF \E k \in 1..Len(q) :
                                       q[k].name = d.name /\ q[k].id = i
                                THEN "replaced"
                                ELSE st[i]],
          link      |-> [i \in Ids |->
                           IF i = d.id
                           THEN [rb[i] EXCEPT !.during = RunningId(d.name, ex)]
                           ELSE IF \E k \in 1..Len(q) :
                                       q[k].name = d.name /\ q[k].id = i
                                THEN [replacedBy |-> d.id, during |-> 0]
                                ELSE rb[i]]]
    ELSE [deploying |-> Put(Put(dep, d.name, TRUE), "active", TRUE),
          queued    |-> q,
          execs     |-> ex \cup {[d |-> d, phase |-> "pull", pull |-> "pending",
                                   via |-> IF st[d.id] = "queued"
                                           THEN "drain" ELSE "direct"]},
          status    |-> [st EXCEPT ![d.id] = "pull"],
          link      |-> [rb EXCEPT ![d.id].during = 0]]

Deploy(d, dep, q, ex, st) ==
    LET r == DeployResult(d, dep, q, ex, st, link)
    IN  /\ deploying' = r.deploying
        /\ queued' = r.queued
        /\ execs' = r.execs
        /\ status' = r.status
        /\ link' = r.link

(***************************************************************************)
(* init(): the allow-list refresh.                                         *)
(***************************************************************************)
MetaError ==
    /\ metaPending
    /\ metaPending' = FALSE
    /\ UNCHANGED <<githubIpRanges, deploying, queued, dirs, branchQueries, armed,
                   fsChecks, execs, nextId, status, link, lastHook>>

MetaDone ==
    /\ metaPending
    /\ metaPending' = FALSE
    /\ \E body \in [hooks : MetaHooks] \cup {[message |-> "x"]} :
          githubIpRanges' = IF In("hooks", body) THEN body.hooks ELSE githubIpRanges
    /\ UNCHANGED <<deploying, queued, dirs, branchQueries, armed,
                   fsChecks, execs, nextId, status, link, lastHook>>

(***************************************************************************)
(* bindSchedulers(): the callback of `git rev-parse --abbrev-ref HEAD`.    *)
(***************************************************************************)
BranchQueryFail(t) ==
    /\ t \in branchQueries
    /\ branchQueries' = branchQueries \ {t}
    /\ UNCHANGED <<githubIpRanges, metaPending, deploying, queued, dirs, armed,
                   fsChecks, execs, nextId, status, link, lastHook>>

BranchQueryDone(t) ==
    /\ t \in branchQueries
    /\ t \in dirs
    /\ branchQueries' = branchQueries \ {t}
    /\ armed' = armed \cup {t}
    /\ UNCHANGED <<githubIpRanges, metaPending, deploying, queued, dirs,
                   fsChecks, execs, nextId, status, link, lastHook>>

\* A cron job armed by a target's schedule fires and calls deploy.
SchedulerFire(t) ==
    /\ t \in armed
    /\ nextId <= MaxSubmits
    /\ nextId' = nextId + 1
    /\ Deploy(SchedDeployer(t, nextId), deploying, queued, execs, status)
    /\ UNCHANGED <<githubIpRanges, metaPending, dirs, branchQueries, armed,
                   fsChecks, lastHook>>

\* The directory of a scheduled target disappears after startup.
RemoveDir(t) ==
    /\ t \in dirs
    /\ dirs' = dirs \ {t}
    /\ UNCHANGED <<githubIpRanges, metaPending, deploying, queued, branchQueries,
                   armed, fsChecks, execs, nextId, status, link, lastHook>>

(***************************************************************************)
(* routeHookPush(req, res)                                                 *)
(***************************************************************************)
\* A handler that answers only the requests it rejects.
ResponsesSentOnReject(passed) == IF passed THEN 0 ELSE 1

\* The res.send('') calls of one run of the handler: the one of the
\* rejection, or the one that ends the handler.
ResponsesSent(passed) == IF passed THEN 1 ELSE 1

\* What the caller has received.
AnswerOf(n) == IF n = 0 THEN "" ELSE "empty"

RouteHookPush(ip, payload) ==
    IF ~Admitted(ip, githubIpRanges)
    THEN /\ lastHook' = [NoHook EXCEPT
                             !.inRange = InSomeRange(ip, githubIpRanges),
                             !.sent = ResponsesSent(FALSE),
                             !.answer = AnswerOf(ResponsesSent(FALSE))]
         /\ UNCHANGED <<githubIpRanges, metaPending, deploying, queued, dirs,
                        branchQueries, armed, fsChecks, execs, nextId, status, link>>
    ELSE IF Throws(payload)
    THEN \* The exception leaves the handler before fs.exists and res.send;
         \* the router catches it and answers with the error.
         /\ lastHook' = [NoHook EXCEPT
                             !.inRange = InSomeRange(ip, githubIpRanges),
                             !.sent = 1,
                             !.answer = "error"]
         /\ UNCHANGED <<githubIpRanges, metaPending, deploying, queued, dirs,
                        branchQueries, armed, fsChecks, execs, nextId, status, link>>
    ELSE /\ nextId <= MaxSubmits
         /\ nextId' = nextId + 1
         /\ fsChecks' = fsChecks \cup {HookDeployer(payload, nextId)}
         /\ status' = [status EXCEPT ![nextId] = "check"]
         /\ lastHook' = [inRange    |-> InSomeRange(ip, githubIpRanges),
                         sent       |-> ResponsesSent(TRUE),
                         answer     |-> AnswerOf(ResponsesSent(TRUE)),
                         dispatched |-> TRUE,
                         ref        |-> payload.ref,
                         repository |-> payload.repository,
                         name       |-> HookDeployer(payload, nextId).name,
                         branch     |-> HookDeployer(payload, nextId).branch]
         /\ UNCHANGED <<githubIpRanges, metaPending, deploying, queued, dirs,
                        branchQueries, armed, execs, link>>

\* The callback of fs.exists(deployer.path + "/deploy.js").
FsExistsDone(d) ==
    /\ d \in fsChecks
    /\ fsChecks' = fsChecks \ {d}
    /\ IF d.name \in dirs
       THEN Deploy(d, deploying, queued, execs, status)
       ELSE /\ status' = [status EXCEPT ![d.id] = "dropped"]
            /\ UNCHANGED <<deploying, queued, execs, link>>
    /\ UNCHANGED <<githubIpRanges, metaPending, dirs, branchQueries, armed,
                   nextId, lastHook>>

(***************************************************************************)
(* The callbacks of a deployment.                                          *)
(***************************************************************************)
\* A pull callback that logs the error and goes on.
PullErrIgnored(err) == FALSE

\* if (err !== null) { ...; return; }
PullErrReturns(err) == err

\* The callback of `git reset --hard HEAD && git pull` with err === null.
PullOk(e) ==
    /\ e \in execs
    /\ e.phase = "pull"
    /\ e.d.name \in dirs
    /\ execs' = (execs \ {e}) \cup {[e EXCEPT !.phase = "run", !.pull = "ok"]}
    /\ status' = [status EXCEPT ![e.d.id] = "run"]
    /\ UNCHANGED <<githubIpRanges, metaPending, deploying, queued, dirs,
                   branchQueries, armed, fsChecks, nextId, link, lastHook>>

\* The same callback with an error.
PullFail(e) ==
    /\ e \in execs
    /\ e.phase = "pull"
    /\ IF PullErrReturns(TRUE)
       THEN /\ execs' = execs \ {e}
            /\ status' = [status EXCEPT ![e.d.id] = "pullFailed"]
       ELSE /\ execs' = (execs \ {e}) \cup
                            {[e EXCEPT !.phase = "run", !.pull = "failed"]}
            /\ status' = [status EXCEPT ![e.d.id] = "run"]
    /\ UNCHANGED <<githubIpRanges, metaPending, deploying, queued, dirs,
                   branchQueries, armed, fsChecks, nextId, link, lastHook>>

\* A run callback that returns after logging the error, as the pull one does.
RunErrReturnsEarly(err) == err

\* if (err) { logger.error(...); }  -- the callback goes on after logging.
RunErrReturns(err) == FALSE

\* The callback deployerRunner.run is given, called with err.
RunDone(e, err) ==
    /\ e \in execs
    /\ e.phase = "run"
    /\ LET dep1 == Put(Delete(deploying, e.d.name), "active", FALSE)
           st1 == [status EXCEPT ![e.d.id] = IF err THEN "err" ELSE "ok"]
           queuedName == ForInFirst(queued)
       IN  IF RunErrReturns(err)
           THEN /\ execs' = execs \ {e}
                /\ status' = st1
                /\ UNCHANGED <<deploying, queued, link>>
           ELSE IF Truthy(queuedName)
           THEN Deploy(ObjGet(queued, queuedName), dep1,
                       ObjDelete(queued, queuedName), execs \ {e}, st1)
           ELSE /\ deploying' = dep1
                /\ execs' = execs \ {e}
                /\ status' = st1
                /\ UNCHANGED <<queued, link>>
    /\ UNCHANGED <<githubIpRanges, metaPending, dirs, branchQueries, armed,
                   fsChecks, nextId, lastHook>>

Next ==
    \/ MetaError
    \/ MetaDone
    \/ \E t \in SchedTargets : BranchQueryFail(t)
    \/ \E t \in SchedTargets : BranchQueryDone(t)
    \/ \E t \in SchedTargets : SchedulerFire(t)
    \/ \E t \in SchedTargets : RemoveDir(t)
    \/ \E ip \in Ips, payload \in Payloads : RouteHookPush(ip, payload)
    \/ \E d \in fsChecks : FsExistsDone(d)
    \/ \E e \in execs : PullOk(e)
    \/ \E e \in execs : PullFail(e)
    \/ \E e \in execs, err \in BOOLEAN : RunDone(e, err)

Spec == Init /\ [][Next]_vars

\* The same program when the pushes may also carry a malformed payload.
NextAdmit ==
    \/ Next
    \/ \E ip \in Ips, payload \in MalformedPayloads : RouteHookPush(ip, payload)

SpecAdmit == Init /\ [][NextAdmit]_vars

\* The scheduler binder and the deployments its cron jobs ask for, next to
\* the directories of BindSiblings.
NextBind ==
    \/ \E t \in BindNames : BranchQueryFail(t)
    \/ \E t \in BindNames : BranchQueryDone(t)
    \/ \E t \in BindNames : SchedulerFire(t)
    \/ \E t \in BindNames : RemoveDir(t)
    \/ \E e \in execs : PullOk(e)
    \/ \E e \in execs : PullFail(e)
    \/ \E e \in execs, err \in BOOLEAN : RunDone(e, err)

SpecBind == InitBind /\ [][NextBind]_vars

(***************************************************************************)
(* The program when every pull succeeds (no target directory disappears),  *)
(* with the event loop delivering every pending callback.                  *)
(***************************************************************************)
NextDrain ==
    \/ MetaError
    \/ MetaDone
    \/ \E t \in SchedTargets : BranchQueryFail(t)
    \/ \E t \in SchedTargets : BranchQueryDone(t)
    \/ \E t \in SchedTargets : SchedulerFire(t)
    \/ \E ip \in Ips, payload \in Payloads : RouteHookPush(ip, payload)
    \/ \E d \in fsChecks : FsExistsDone(d)
    \/ \E e \in execs : PullOk(e)
    \/ \E e \in execs, err \in BOOLEAN : RunDone(e, err)

CallbackFairness ==
    /\ WF_vars(\E d \in fsChecks : FsExistsDone(d))
    /\ WF_vars(\E e \in execs : PullOk(e))
    /\ WF_vars(\E e \in execs, err \in BOOLEAN : RunDone(e, err))

SpecDrain == Init /\ [][NextDrain]_vars /\ CallbackFairness

(***************************************************************************)
(* Properties.                                                             *)
(***************************************************************************)
Started == {"pull", "pullFailed", "run", "ok", "err"}

\* C1: at most one deployment is between its start and its last callback,
\* whatever the interleaving of pushes, scheduler fires and drains.
C1_MutualExclusion == Cardinality(execs) <= 1

\* A deployment is in flight while a request for another name waits.
C1_Witness ==
    \E e \in execs : \E k \in 1..Len(queued) : queued[k].name # e.d.name

\* C2: the step in which a pull fails also runs the cleanup: the name leaves
\* deploying and either the lock is free or the first queued request starts.
C2_PullFailureCleansUp ==
    [][\A e \in execs :
          (e.phase = "pull" /\ status'[e.d.id] = "pullFailed")
          => IF queued = <<>>
             THEN ~deploying'["active"] /\ ~In(e.d.name, deploying')
             ELSE /\ queued' = Tail(queued)
                  /\ status'[queued[1].id] = "pull"
                  /\ deploying'["active"]]_vars

\* C3: when every pull succeeds and every run calls back, a queued request
\* leaves that state only by being started (or by being overwritten by a
\* later request of its name), no request stays queued for ever, and the
\* system ends with queued empty and the lock free.
C3_DrainExhaustive ==
    /\ [][\A i \in Ids :
             status[i] = "queued"
             => status'[i] \in {"queued", "pull", "replaced"}]_vars
    /\ <>[](/\ queued = <<>>
            /\ ~deploying["active"]
            /\ execs = {}
            /\ \A i \in Ids : status[i] # "queued")

\* Two requests of distinct names wait while a deployment runs.
C3_Witness ==
    /\ Len(queued) = 2
    /\ queued[1].name # queued[2].name
    /\ \E e \in execs : e.phase = "run"

\* C4: a request queued for a name that is already queued takes the place
\* of the older one, so that queued holds one entry for the name, the one
\* submitted last; the overwritten requests never run, and the surviving
\* one does: it always has a deployment in flight whose callback drains.
C4_LatestWinsAndRuns ==
    /\ [][\A i \in Ids :
             (status[i] # "queued" /\ status'[i] = "queued")
             => \E k \in 1..Len(queued') :
                   /\ queued'[k].id = i
                   /\ \A k2 \in 1..Len(queued') :
                         queued'[k2].name = queued'[k].name => k2 = k
                   /\ \A k3 \in 1..Len(queued) :
                         queued[k3].name = queued'[k].name
                         => status'[queued[k3].id] = "replaced"]_vars
    /\ [][\A i \in Ids :
             status[i] = "replaced" => status'[i] = "replaced"]_vars
    /\ [](\A k \in 1..Len(queued) :
             (\E j \in Ids : link[j].replacedBy = queued[k].id) => execs # {})

\* C5: whenever the lock is free, nothing is queued.
C5_IdleMeansEmpty == ~deploying["active"] => queued = <<>>

\* The lock is free again after a request that waited in queued has run.
C5_Witness ==
    /\ ~deploying["active"]
    /\ \E j \in Ids :
          /\ link[j].replacedBy # 0
          /\ status[link[j].replacedBy] \in {"ok", "err"}

\* C6: a request submitted for the name that is running is queued, and once
\* that run's callback has fired the request is on its way to execution
\* without an external trigger: a deployment whose callback drains is in
\* flight for as long as the request waits.
C6_QueuedForRunningNameRuns ==
    /\ [][\A d \in fsChecks :
             (d \notin fsChecks' /\ d.name \in dirs
                /\ \E e \in execs : e.d.name = d.name)
             => \E k \in 1..Len(queued') : queued'[k] = d]_vars
    /\ [](\A k \in 1..Len(queued) :
             LET a == link[queued[k].id].during
             IN  (a # 0 /\ status[a] \in {"ok", "err"}) => execs # {})

\* C7: a run callback, with or without an error, removes the name from
\* deploying and either frees the lock or starts the first queued request;
\* the finished request is neither queued nor started again.
C7_RunErrorSameAsSuccess ==
    /\ [][\A e \in execs :
             (e.phase = "run" /\ e \notin execs')
             => /\ status'[e.d.id] \in {"ok", "err"}
                /\ \A k \in 1..Len(queued') : queued'[k].id # e.d.id
                /\ \A e2 \in execs' : e2.d.id # e.d.id
                /\ IF queued = <<>>
                   THEN /\ deploying' = [k \in {"active"} |-> FALSE]
                        /\ execs' = {}
                        /\ queued' = <<>>
                   ELSE /\ queued' = Tail(queued)
                        /\ execs' = {[d |-> queued[1], phase |-> "pull",
                                      pull |-> "pending", via |-> "drain"]}
                        /\ deploying' = [k \in {"active", queued[1].name} |-> TRUE]
            ]_vars
    /\ [][\A i \in Ids : status[i] = "err" => status'[i] = "err"]_vars

\* A run has reported an error and the lock is free.
C7_Witness == ~deploying["active"] /\ \E i \in Ids : status[i] = "err"

\* C8: a deployment is in its run phase only after its own pull succeeded;
\* a failed pull ends the attempt, and a pull against a missing path never
\* leads to run.
C8_RunOnlyAfterPull ==
    /\ [](\A e \in execs : e.phase = "run" => e.pull = "ok")
    /\ [][\A i \in Ids :
             /\ status'[i] = "run" => status[i] \in {"pull", "run"}
             /\ status[i] = "pullFailed" => status'[i] = "pullFailed"]_vars
    /\ [][\A e \in execs :
             (e.phase = "pull" /\ e.d.name \notin dirs)
             => \A e2 \in execs' : e2.d.id = e.d.id => e2.phase = "pull"]_vars

\* A pull has failed after a target directory disappeared.
C8_Witness == dirs # TargetDirs /\ \E i \in Ids : status[i] = "pullFailed"

\* C9: every push request gets one answer, and it reaches deploy() only if
\* its address lies in some range of the allow-list it was checked against.
C9_OnlyAllowListedReachDeploy ==
    lastHook.sent # 0 =>
        /\ lastHook.sent = 1
        /\ lastHook.dispatched => lastHook.inRange

\* C10: for ref refs/heads/<branch> the deployer's branch is <branch> in
\* full and its name is repository-<branch> with every "/" turned into "-".
C10_BranchAndName ==
    lastHook.dispatched =>
        LET b == SubSeq(lastHook.ref, Len(RefsHeads) + 1, Len(lastHook.ref))
            dashed == [i \in 1..Len(b) |-> IF b[i] = "/" THEN "-" ELSE b[i]]
        IN  /\ lastHook.branch = Str(b)
            /\ lastHook.name = Str(lastHook.repository) \o "-" \o Str(dashed)


\* A step of routeHookPush that the state shows: the record of the last
\* answer changes, or a deployer is handed to fs.exists.
HookStep ==
    \/ lastHook' # lastHook
    \/ \E d \in fsChecks' : d \notin fsChecks

\* C11: a push whose payload parses is answered with exactly one empty
\* response by the step that handles it, whether it is rejected or passed on;
\* that step starts no pull and no run and touches neither the lock nor the
\* queue, so the answer precedes the pull and never waits for it.
C11_OneEmptyAnswerBeforePull ==
    [][HookStep =>
          /\ lastHook'.sent = 1
          /\ lastHook'.answer = "empty"
          /\ execs' = execs
          /\ deploying' = deploying
          /\ queued' = queued
          /\ \A i \in Ids : status'[i] \in Started => status[i] \in Started]_vars

\* The last push was answered and the deployment it asked for is now pulling;
\* no scheduler is armed, so the deployment is the push's.
C11_Witness ==
    /\ armed = {}
    /\ lastHook.dispatched /\ lastHook.sent = 1 /\ lastHook.answer = "empty"
    /\ \E e \in execs : /\ e.phase = "pull"
                        /\ e.d.id = nextId - 1
                        /\ e.d.name = lastHook.name


\* C12 as stated: queued holds at most one request in total.
C12_OneSlotTotal == Len(queued) <= 1

\* C12: queued holds at most one request for each name; requests for
\* different names are held side by side.
C12_OneSlotPerName ==
    \A j, k \in 1..Len(queued) : queued[j].name = queued[k].name => j = k

\* Two requests, for two names, are held while the lock is taken.
C12_Witness ==
    /\ deploying["active"]
    /\ Cardinality({queued[k].name : k \in 1..Len(queued)}) = 2


\* C13: a push that is not admitted (its source is outside the allow-list,
\* its payload is malformed, or its name has no deploy.js) is answered once
\* with the empty response, and its handling calls no deploy(): the lock,
\* the names in flight, the queue and the deployments stay as they were.
C13_AdmissionErrorsRecovered ==
    [][/\ (HookStep /\ ~lastHook'.dispatched) =>
             /\ lastHook'.sent = 1
             /\ lastHook'.answer = "empty"
             /\ UNCHANGED <<deploying, queued, execs, status>>
       /\ \A i \in Ids :
             (status[i] = "check" /\ status'[i] = "dropped") =>
                 UNCHANGED <<deploying, queued, execs>>]_vars


\* C14: a deploy() call made while deploying.active is true (request i, not
\* yet handed to deploy() before the step, is handed to it by the step) only
\* stores the request under its name in queued: nothing is started, the lock
\* and the names in flight are untouched, and the entries of the other names
\* are the same as before.
C14_BusyDeployOnlyQueues ==
    [][\A i \in Ids :
          (/\ deploying["active"]
           /\ status[i] \in {"none", "check"}
           /\ status'[i] \notin {"none", "check", "dropped"}) =>
              /\ status'[i] = "queued"
              /\ execs' = execs
              /\ deploying' = deploying
              /\ \E k \in 1..Len(queued') :
                    /\ queued'[k].id = i
                    /\ SelectSeq(queued', LAMBDA d : d.name = queued'[k].name)
                          = <<queued'[k]>>
                    /\ SelectSeq(queued', LAMBDA d : d.name # queued'[k].name)
                          = SelectSeq(queued, LAMBDA d : d.name # queued'[k].name)]_vars

\* While a deployment pulls, two requests were queued: one for its own name
\* and one for the other name.
C14_Witness ==
    \E e \in execs :
        /\ e.phase = "pull"
        /\ Len(queued) = 2
        /\ \E k \in 1..2 : queued[k].name = e.d.name


\* queued without its k-th entry.
WithoutEntry(q, k) == SubSeq(q, 1, k - 1) \o SubSeq(q, k + 1, Len(q))

\* C15: the step in which a run calls back takes exactly one entry out of a
\* non-empty queued and starts exactly one deployment, the one of that entry,
\* while every other entry stays queued; with queued empty it starts nothing
\* and leaves the lock free.
C15_CompletionDrainsOne ==
    [][\A e \in execs :
          (e.phase = "run" /\ e \notin execs') =>
              IF queued = <<>>
              THEN /\ execs' = {}
                   /\ queued' = <<>>
                   /\ ~deploying'["active"]
              ELSE \E k \in 1..Len(queued) :
                      /\ queued' = WithoutEntry(queued, k)
                      /\ Cardinality(execs') = 1
                      /\ \A e2 \in execs' : e2.d = queued[k] /\ e2.phase = "pull"
                      /\ status'[queued[k].id] = "pull"
                      /\ \A j \in 1..Len(queued) :
                            j # k => status'[queued[j].id] = "queued"]_vars

\* A deployment taken from queued is pulling and another request is still
\* queued.
C15_Witness ==
    /\ queued # <<>>
    /\ \E e \in execs : e.via = "drain" /\ e.phase = "pull"


\* C16: deploying never holds more than one name; deploying.active is true
\* exactly when it holds one; and the names it holds are the names of the
\* deployments that are in their pull or run phase.
C16_LockIffOneActiveName ==
    LET activeNames == DOMAIN deploying \ {"active"}
    IN  /\ Cardinality(activeNames) <= 1
        /\ deploying["active"] <=> Cardinality(activeNames) = 1
        /\ activeNames = {e.d.name : e \in execs}


\* C17: a target is armed only if it has a deploy.js exposing schedule, and
\* only by the callback of its own branch query, which must have succeeded
\* (its directory is there) and is consumed by the arming, so that schedule
\* is invoked at most once for it; a target whose query is no longer pending
\* and that is not armed (no schedule, or query failed) is never armed; and
\* the end of one target's query, failed or not, leaves the queries and the
\* arming of the other targets as they were.
C17_ArmedOnceIfScheduleAndBranch ==
    /\ [](\A t \in armed :
            /\ t \notin branchQueries
            /\ \E f \in BindSiblings :
                  f.name = t /\ ~f.hidden /\ f.deployJs /\ f.schedule)
    /\ [][\A t \in BindNames :
             /\ (t \in armed' /\ t \notin armed) =>
                   t \in branchQueries /\ t \notin branchQueries' /\ t \in dirs
             /\ (t \notin branchQueries /\ t \notin armed) =>
                   t \notin branchQueries' /\ t \notin armed'
             /\ (t \in branchQueries /\ t \notin branchQueries') =>
                   \A u \in BindNames \ {t} :
                       /\ u \in branchQueries <=> u \in branchQueries'
                       /\ u \in armed <=> u \in armed']_vars

\* One target's branch query failed and it stays unarmed, the target
\* without schedule is unarmed, and another target is armed.
C17_Witness ==
    /\ "app-x" \notin armed
    /\ \E t, u \in BindScan(BindSiblings) :
          /\ t \in armed
          /\ u \notin armed /\ u \notin branchQueries


\* C18: a deployment is started only for a request that a push or a
\* scheduler fire handed to deploy() (directly in that step, or earlier and
\* queued since), with the deployer of that request; a request that is being
\* executed is no longer in queued; and a request is started at most once,
\* so that for each name there are no more starts than external calls.
C18_NoSpuriousOrDuplicateRun ==
    /\ [](\A e \in execs :
            /\ e.d.id < nextId
            /\ status[e.d.id] \in {"pull", "run"}
            /\ \A k \in 1..Len(queued) : queued[k].id # e.d.id)
    /\ [](\A k \in 1..Len(queued) : status[queued[k].id] = "queued")
    /\ [][\A i \in Ids :
             (status'[i] = "pull" /\ status[i] # "pull") =>
                 /\ \E e \in execs' : e.d.id = i /\ e \notin execs
                 /\ \/ /\ status[i] = "check"
                       /\ \E d \in fsChecks :
                             d.id = i /\ d \notin fsChecks'
                                      /\ \E e \in execs' : e.d = d
                    \/ /\ status[i] = "queued"
                       /\ \E k \in 1..Len(queued) :
                             queued[k].id = i /\ \E e \in execs' : e.d = queued[k]
                    \/ /\ status[i] = "none"
                       /\ i = nextId /\ nextId' = nextId + 1
                       /\ \E e \in execs' : e.d.id = i /\ e.d.name \in armed]_vars
    /\ [][\A i \in Ids :
             status[i] \in Started =>
                 /\ status'[i] \in Started
                 /\ status'[i] = "pull" => status[i] = "pull"]_vars

\* A request taken from queued is in its run phase.
C18_Witness == \E e \in execs : e.via = "drain" /\ e.phase = "run"


====
